---------------------------- MODULE Spec2Model ----------------------------
(***************************************************************************)
(* Model of marax-shot-timer (src/src/main.rs).                            *)
(*                                                                         *)
(* Four concurrently scheduled activities share three objects:             *)
(*   - the serial task        (main.rs 308-326), writer of pump_running,   *)
(*   - the countdown task     (run_pump, main.rs 36-94), only writer of    *)
(*                             the display,                                *)
(*   - the Ctrl-C handler     (main.rs 266-270), writer of pump_loop_exit, *)
(*   - main                   (main.rs 340), which joins the countdown     *)
(*                             task and then lets the process exit.        *)
(* The tasks run on the multi-threaded tokio runtime, so a step of the     *)
(* model is one access to a shared object (an atomic load or store, a      *)
(* notify_one, the completion of an await) together with the task-local    *)
(* code that follows it up to the next shared access.  The display has one *)
(* writer, so the display calls of a tick are local to the countdown task  *)
(* and belong to the step of the pump_running load that precedes them.     *)
(*                                                                         *)
(* start_pump is a tokio Notify: notify_one stores one notification when    *)
(* no task is waiting and further ones collapse into it; notified() takes  *)
(* it.  A task woken by notify_one and one that finds a stored             *)
(* notification behave alike, so both are the step PumpWake.               *)
(*                                                                         *)
(* Text is modelled as a sequence of one-character strings.                *)
(***************************************************************************)
EXTENDS Integers, Sequences, FiniteSets, TLC

VARIABLES
    pc,         \* run_pump: where the countdown task is
    i,          \* run_pump: the for-loop index _i
    buf,        \* display: the frame buffer (set of glyphs drawn since clear)
    shown,      \* display: what the last flush put on the device
    lastOps,    \* display: the last two calls made on it
    permit,     \* start_pump: the Notify holds a stored notification
    running,    \* pump_running
    exit,       \* pump_loop_exit
    hpc,        \* Ctrl-C handler: where the handler thread is
    signalled,  \* Ctrl-C handler: it has notified start_pump at least once
    server,     \* prometheus server task
    rbuf,       \* serial task: bytes read from the port and not yet framed
    spc,        \* serial task: where it is
    line,       \* serial task: the line read last
    res,        \* serial task: result of parsing it
    metrics,    \* the seven gauges
    proc,       \* the process: running, or how it exited
    offSeen,    \* history: pump_running was stored false during this session
    edgeSessions \* history: sessions started since a rising edge seen while idle

vars == <<pc, i, buf, shown, lastOps, permit, running, exit, hpc, signalled,
          server, rbuf, spc, line, res, metrics, proc, offSeen, edgeSessions>>

pumpVars    == <<pc, i, buf, shown, lastOps>>
serialVars  == <<rbuf, spc, line, res, metrics>>
handlerVars == <<hpc, signalled, exit>>

-----------------------------------------------------------------------------
(* Constants of the program *)

TICKS == 99

(* Bounds of the model *)

MaxExtraFields == 1

-----------------------------------------------------------------------------
(* Text *)

DigitChars == <<"0", "1", "2", "3", "4", "5", "6", "7", "8", "9">>

IsDigit(c) == \E k \in 1..10 : DigitChars[k] = c

DigitVal(c) == (CHOOSE k \in 1..10 : DigitChars[k] = c) - 1

RECURSIVE DigitsValue(_, _)
DigitsValue(ds, acc) ==
    IF ds = <<>> THEN acc
    ELSE DigitsValue(Tail(ds), acc * 10 + DigitVal(Head(ds)))

\* str::parse::<i64>: an optional sign, then one or more decimal digits and
\* nothing else (no white space).  The tokens of the model are short, so the
\* value always fits 64 bits.
ParseI64(tok) ==
    LET signed == tok # <<>> /\ Head(tok) \in {"+", "-"}
        ds     == IF signed THEN Tail(tok) ELSE tok
    IN  IF ds = <<>> \/ \E k \in 1..Len(ds) : ~IsDigit(ds[k])
        THEN [ok |-> FALSE, val |-> 0]
        ELSE [ok |-> TRUE,
              val |-> IF signed /\ Head(tok) = "-"
                      THEN 0 - DigitsValue(ds, 0)
                      ELSE DigitsValue(ds, 0)]

\* str::split(','): the pieces between the commas, empty pieces included.
RECURSIVE SplitAcc(_, _, _)
SplitAcc(s, cur, acc) ==
    IF s = <<>> THEN Append(acc, cur)
    ELSE IF Head(s) = ","
         THEN SplitAcc(Tail(s), <<>>, Append(acc, cur))
         ELSE SplitAcc(Tail(s), Append(cur, Head(s)), acc)

Split(s) == SplitAcc(s, <<>>, <<>>)

-----------------------------------------------------------------------------
(* parse_line_and_update_metrics *)

Ok(b)  == [ok |-> TRUE,  pump_on |-> b,     err |-> "none"]
Err(e) == [ok |-> FALSE, pump_on |-> FALSE, err |-> e]
NoResult == Err("not parsed")

\* The errors of the function: its four messages and the ParseIntError that
\* the ? operator passes on.
ErrFieldCount  == "parse error: wrong number of tokens"
ErrEmptyToken  == "parse error: empty token 0"
ErrUnknownMode == "parse error: unknown machine mode"
ErrNumeric     == "ParseIntError"
ErrHeating     == "parse error: wrong heating element state value"
ErrPump        == "parse error: wrong pump state value"

ZeroMetrics ==
    [machine_mode |-> 0, steam_temperature |-> 0, target_steam_temperature |-> 0,
     hx_temperature |-> 0, countdown_boost_mode |-> 0, heating_element_on |-> 0,
     pump_on |-> 0]

\* if v.len() != 7 { return Err(..) }
FieldCountLoose(v) == Len(v) >= 7

FieldCountOk(v) == Len(v) = 7

\* 'C' => machine_mode.set(1), 'V' => machine_mode.set(0)
ModeGaugeSwapped(c) == IF c = "C" THEN 0 ELSE 1

ModeGauge(c) == IF c = "C" THEN 1 ELSE 0

\* if x != 0 && x != 1 { return Err(..) }
IsFlagLoose(n) == n >= 0

IsFlag(n) == n = 0 \/ n = 1

\* The function sets each gauge as soon as it has the value, so the gauges of
\* the fields before a bad field are already written when it returns Err.
parse_line_and_update_metrics(l, m) ==
    LET v == Split(l) IN
    IF ~FieldCountOk(v) THEN [res |-> Err(ErrFieldCount), metrics |-> m]
    ELSE IF v[1] = <<>> THEN [res |-> Err(ErrEmptyToken), metrics |-> m]
    ELSE IF Head(v[1]) \notin {"C", "V"}
         THEN [res |-> Err(ErrUnknownMode), metrics |-> m]
    ELSE
    LET m0 == [m EXCEPT !.machine_mode = ModeGauge(Head(v[1]))]
        p1 == ParseI64(v[2])
        m1 == [m0 EXCEPT !.steam_temperature = p1.val]
        p2 == ParseI64(v[3])
        m2 == [m1 EXCEPT !.target_steam_temperature = p2.val]
        p3 == ParseI64(v[4])
        m3 == [m2 EXCEPT !.hx_temperature = p3.val]
        p4 == ParseI64(v[5])
        m4 == [m3 EXCEPT !.countdown_boost_mode = p4.val]
        p5 == ParseI64(v[6])
        m5 == [m4 EXCEPT !.heating_element_on = p5.val]
        p6 == ParseI64(v[7])
        m6 == [m5 EXCEPT !.pump_on = p6.val]
    IN  IF ~p1.ok THEN [res |-> Err(ErrNumeric), metrics |-> m0]
        ELSE IF ~p2.ok THEN [res |-> Err(ErrNumeric), metrics |-> m1]
        ELSE IF ~p3.ok THEN [res |-> Err(ErrNumeric), metrics |-> m2]
        ELSE IF ~p4.ok THEN [res |-> Err(ErrNumeric), metrics |-> m3]
        ELSE IF ~p5.ok THEN [res |-> Err(ErrNumeric), metrics |-> m4]
        ELSE IF ~IsFlag(p5.val) THEN [res |-> Err(ErrHeating), metrics |-> m4]
        ELSE IF ~p6.ok THEN [res |-> Err(ErrNumeric), metrics |-> m5]
        ELSE IF ~IsFlag(p6.val) THEN [res |-> Err(ErrPump), metrics |-> m5]
        ELSE [res |-> Ok(p6.val = 1), metrics |-> m6]

-----------------------------------------------------------------------------
(* Lines *)

RECURSIVE Join(_)
Join(toks) ==
    IF Len(toks) = 0 THEN <<>>
    ELSE IF Len(toks) = 1 THEN toks[1]
    ELSE toks[1] \o <<",">> \o Join(Tail(toks))

\* The lines the serial task receives in the concurrency specification: a
\* pump-on reading, a pump-off reading and a line with six fields.  They are
\* the text given to parse_line_and_update_metrics; how LineCodec cuts a line
\* out of the byte stream (it keeps the terminator) is not part of Spec.
LineOn  == Join(<<<<"C">>, <<"1">>, <<"1">>, <<"1">>, <<"1">>, <<"1">>, <<"1">>>>)
LineOff == Join(<<<<"C">>, <<"1">>, <<"1">>, <<"1">>, <<"1">>, <<"1">>, <<"0">>>>)
LineBad == Join(<<<<"C">>, <<"1">>, <<"1">>, <<"1">>, <<"1">>, <<"1">>>>)

SpecLines == {LineOn, LineOff, LineBad}

\* The lines of the decoding specification: every choice of a leading token,
\* four numeric tokens and two flag tokens, each such line also with its last
\* field dropped and with up to MaxExtraFields fields more.
ModeTokens   == {<<>>, <<"C">>, <<"V", "1">>, <<"X">>}
NumberTokens == {<<"0", "5">>, <<"-", "3">>, <<"x">>}
FlagTokens   == {<<"0">>, <<"1">>, <<"2">>, <<"x">>}

SevenFields ==
    {<<t1, t2, t3, t4, t5, t6, t7>> :
        t1 \in ModeTokens, t2 \in NumberTokens, t3 \in NumberTokens,
        t4 \in NumberTokens, t5 \in NumberTokens, t6 \in FlagTokens,
        t7 \in FlagTokens}

RECURSIVE Extra(_)
Extra(n) == IF n = 0 THEN <<>> ELSE <<<<"0">>>> \o Extra(n - 1)

DecodeLines ==
    {Join(t) : t \in SevenFields}
    \cup {Join(SubSeq(t, 1, 6)) : t \in SevenFields}
    \cup {Join(t \o Extra(n)) : t \in SevenFields, n \in 1..MaxExtraFields}

-----------------------------------------------------------------------------
(* LineCodec and the bytes on the wire *)

MaxRecords == 2

LF == "\n"

\* A byte that occurs in no UTF-8 text.
BadByte == "0xFF"

\* src.as_ref().iter().position(|b| *b == b'\n'); 0 when there is none.
NewlinePos(src) ==
    IF \E k \in 1..Len(src) : src[k] = LF
    THEN CHOOSE k \in 1..Len(src) :
            src[k] = LF /\ \A j \in 1..(k - 1) : src[j] # LF
    ELSE 0

\* str::from_utf8 on the bytes of the model.
Utf8Valid(bytes) == \A k \in 1..Len(bytes) : bytes[k] # BadByte

\* src.split_to(n + 1): the line with its newline.
SplitLine(src, n) == SubSeq(src, 1, n)

\* Decoder::decode of LineCodec: the item, and what stays in the buffer.
LineCodecDecode(src) ==
    LET n == NewlinePos(src) IN
    IF n = 0 THEN [kind |-> "None", item |-> <<>>, rest |-> src]
    ELSE IF Utf8Valid(SplitLine(src, n))
         THEN [kind |-> "Some", item |-> SplitLine(src, n),
               rest |-> SubSeq(src, n + 1, Len(src))]
         ELSE [kind |-> "Err", item |-> <<>>,
               rest |-> SubSeq(src, n + 1, Len(src))]

\* What the machine may send: readings, a short line and a damaged byte,
\* each ended by a newline; up to MaxRecords of them are in the buffer.
LineSteam ==
    Join(<<<<"V", "1">>, <<"-", "3">>, <<"0", "5">>, <<"1">>, <<"1">>, <<"0">>, <<"1">>>>)

WireRecords ==
    {l \o <<LF>> : l \in {LineOn, LineOff, LineBad, LineSteam}}
    \cup {<<"C", BadByte, LF>>}

RECURSIVE WireStreams(_)
WireStreams(n) ==
    IF n = 0 THEN {<<>>}
    ELSE WireStreams(n - 1)
         \cup {st \o r : st \in WireStreams(n - 1), r \in WireRecords}

-----------------------------------------------------------------------------
(* The display *)

Blank == {}

first_digit(n)  == n \div 10
second_digit(n) == n % 10

\* The frame with a leading zero.
FrameLeadingZero(n) ==
    {[pos |-> "first", digit |-> first_digit(n)],
     [pos |-> "second", digit |-> second_digit(n)]}

\* One tick's frame: the tens digit is drawn only when it is not 0.
Frame(n) ==
    (IF first_digit(n) # 0
     THEN {[pos |-> "first", digit |-> first_digit(n)]} ELSE {})
    \cup {[pos |-> "second", digit |-> second_digit(n)]}

Alive == proc = "running"

Counting == pc \in {"loop", "tick"}

-----------------------------------------------------------------------------
(* The countdown task, run_pump *)

\* A notification that also wakes a task that has returned.
PumpWakeAfterReturn ==
    /\ Alive /\ pc \in {"wait", "done"} /\ permit
    /\ permit' = FALSE
    /\ pc' = "woken"
    /\ UNCHANGED <<i, buf, shown, lastOps, running, serialVars, handlerVars,
                   server, proc, offSeen, edgeSessions>>

\* start_pump.notified().await completes, taking the stored notification.
PumpWake ==
    /\ Alive /\ pc = "wait" /\ permit
    /\ permit' = FALSE
    /\ pc' = "woken"
    /\ UNCHANGED <<i, buf, shown, lastOps, running, serialVars, handlerVars,
                   server, proc, offSeen, edgeSessions>>

\* The wake-up that does not look at the exit flag.
PumpCheckExitIgnored ==
    /\ Alive /\ pc = "woken"
    /\ pc' = "loop"
    /\ i' = 0
    /\ offSeen' = FALSE
    /\ edgeSessions' = IF edgeSessions \in {0, 1}
                       THEN edgeSessions + 1 ELSE edgeSessions
    /\ UNCHANGED <<buf, shown, lastOps, permit, running, serialVars,
                   handlerVars, server, proc>>

\* The wake-up that takes the exit flag (swap(false) in place of load).
PumpCheckExitSwap ==
    /\ Alive /\ pc = "woken"
    /\ IF exit
       THEN /\ pc' = "final"
            /\ UNCHANGED <<i, offSeen, edgeSessions>>
       ELSE /\ pc' = "loop"
            /\ i' = 0
            /\ offSeen' = FALSE
            /\ edgeSessions' = IF edgeSessions \in {0, 1}
                               THEN edgeSessions + 1 ELSE edgeSessions
    /\ exit' = FALSE
    /\ UNCHANGED <<buf, shown, lastOps, permit, running, serialVars,
                   hpc, signalled, server, proc>>

\* if exit.load() { break; } and then entry into the for loop.
PumpCheckExit ==
    /\ Alive /\ pc = "woken"
    /\ IF exit
       THEN /\ pc' = "final"
            /\ UNCHANGED <<i, offSeen, edgeSessions>>
       ELSE /\ pc' = "loop"
            /\ i' = 0
            /\ offSeen' = FALSE
            /\ edgeSessions' = IF edgeSessions \in {0, 1}
                               THEN edgeSessions + 1 ELSE edgeSessions
    /\ UNCHANGED <<buf, shown, lastOps, permit, running, serialVars,
                   handlerVars, server, proc>>

\* Back to notified() with the display left as it is.
CleanupSkipped ==
    /\ UNCHANGED <<buf, shown, lastOps>>
    /\ pc' = "wait"
    /\ i' = 0
    /\ offSeen' = FALSE

\* disp.clear(); disp.flush() after the for loop, then back to notified().
Cleanup ==
    /\ buf' = Blank
    /\ shown' = Blank
    /\ lastOps' = <<"clear", "flush">>
    /\ pc' = "wait"
    /\ i' = 0
    /\ offSeen' = FALSE

\* The pre-tick check finds the pump running: the frame of tick _i is drawn
\* and flushed, and the task waits for the next tick.
PumpRender ==
    /\ Alive /\ pc = "loop" /\ i < TICKS /\ running
    /\ buf' = Frame(i)
    /\ shown' = Frame(i)
    /\ lastOps' = <<"draw", "flush">>
    /\ pc' = "tick"
    /\ UNCHANGED <<i, permit, running, serialVars, handlerVars, server, proc,
                   offSeen, edgeSessions>>

\* The pre-tick check finds the pump off: break out of the for loop.
PumpAbort ==
    /\ Alive /\ pc = "loop" /\ i < TICKS /\ ~running
    /\ Cleanup
    /\ UNCHANGED <<permit, running, serialVars, handlerVars, server, proc,
                   edgeSessions>>

\* interval.tick().await completes.
PumpTickDone ==
    /\ Alive /\ pc = "tick"
    /\ i' = i + 1
    /\ pc' = "loop"
    /\ UNCHANGED <<buf, shown, lastOps, permit, running, serialVars,
                   handlerVars, server, proc, offSeen, edgeSessions>>

\* The range 0..99 is exhausted.
PumpComplete ==
    /\ Alive /\ pc = "loop" /\ i = TICKS
    /\ Cleanup
    /\ UNCHANGED <<permit, running, serialVars, handlerVars, server, proc,
                   edgeSessions>>

\* After the outer loop: disp.clear(); disp.flush(); run_pump returns.
PumpFinal ==
    /\ Alive /\ pc = "final"
    /\ buf' = Blank
    /\ shown' = Blank
    /\ lastOps' = <<"clear", "flush">>
    /\ pc' = "done"
    /\ UNCHANGED <<i, permit, running, serialVars, handlerVars, server, proc,
                   offSeen, edgeSessions>>

\* A draw or the flush of a tick fails: unwrap() panics and the task ends.
PumpRenderFail ==
    /\ Alive /\ pc = "loop" /\ i < TICKS /\ running
    /\ \E at \in {"draw", "flush"} :
          /\ buf' = IF at = "draw" THEN Blank ELSE Frame(i)
          /\ lastOps' = <<IF at = "draw" THEN "clear" ELSE "draw", at>>
    /\ pc' = "panicked"
    /\ UNCHANGED <<i, shown, permit, running, serialVars, handlerVars, server,
                   proc, offSeen, edgeSessions>>

\* The flush after the for loop fails.
PumpCleanupFail ==
    /\ Alive /\ pc = "loop" /\ (i = TICKS \/ ~running)
    /\ buf' = Blank
    /\ lastOps' = <<"clear", "flush">>
    /\ pc' = "panicked"
    /\ UNCHANGED <<i, shown, permit, running, serialVars, handlerVars, server,
                   proc, offSeen, edgeSessions>>

\* The flush before run_pump returns fails.
PumpFinalFail ==
    /\ Alive /\ pc = "final"
    /\ buf' = Blank
    /\ lastOps' = <<"clear", "flush">>
    /\ pc' = "panicked"
    /\ UNCHANGED <<i, shown, permit, running, serialVars, handlerVars, server,
                   proc, offSeen, edgeSessions>>

PumpNext ==
    \/ PumpWake \/ PumpCheckExit \/ PumpRender \/ PumpAbort
    \/ PumpTickDone \/ PumpComplete \/ PumpFinal

-----------------------------------------------------------------------------
(* The serial task *)

\* reader.next().await yields Some(Ok(line)).
SerialRecv(l) ==
    /\ Alive /\ spc = "read"
    /\ line' = l
    /\ res' = NoResult
    /\ spc' = "parse"
    /\ UNCHANGED <<pumpVars, permit, running, handlerVars, server, rbuf, metrics,
                   proc, offSeen, edgeSessions>>

\* reader.next().await frames the next line out of the bytes read: the line
\* goes to the loop body, or the framing error makes expect() panic.
SerialFrame ==
    /\ Alive /\ spc = "read"
    /\ LET d == LineCodecDecode(rbuf) IN
        /\ d.kind # "None"
        /\ rbuf' = d.rest
        /\ IF d.kind = "Some"
           THEN line' = d.item /\ res' = NoResult /\ spc' = "parse"
           ELSE spc' = "panicked" /\ UNCHANGED <<line, res>>
    /\ UNCHANGED <<pumpVars, permit, running, handlerVars, server, metrics,
                   proc, offSeen, edgeSessions>>

\* The port fails with no whole line buffered: reader.next().await yields
\* Some(Err(_)), expect() panics, the task ends.
SerialRecvErr ==
    /\ Alive /\ spc = "read"
    /\ LineCodecDecode(rbuf).kind = "None"
    /\ spc' = "panicked"
    /\ UNCHANGED <<pumpVars, permit, running, handlerVars, server, rbuf, line, res,
                   metrics, proc, offSeen, edgeSessions>>

\* The port is closed with nothing buffered: reader.next().await yields
\* None and the while-let loop ends.
SerialEof ==
    /\ Alive /\ spc = "read"
    /\ rbuf = <<>>
    /\ spc' = "closed"
    /\ UNCHANGED <<pumpVars, permit, running, handlerVars, server, rbuf, line, res,
                   metrics, proc, offSeen, edgeSessions>>

\* if pump_on && !pump_was_running { start_pump.notify_one(); }
NoEdge(pump_on, pump_was_running) == FALSE

AnyOnReading(pump_on, pump_was_running) == pump_on

RisingEdge(pump_on, pump_was_running) == pump_on /\ ~pump_was_running

\* pump_was_running is loaded, the line parsed and, on Ok, pump_running stored.
SerialParse ==
    /\ Alive /\ spc = "parse"
    /\ LET pump_was_running == running
           r == parse_line_and_update_metrics(line, metrics)
       IN  /\ metrics' = r.metrics
           /\ res' = r.res
           /\ IF r.res.ok
              THEN /\ running' = r.res.pump_on
                   /\ spc' = IF RisingEdge(r.res.pump_on, pump_was_running)
                             THEN "notify" ELSE "read"
                   /\ offSeen' = (offSeen \/ (~r.res.pump_on /\ Counting))
                   /\ edgeSessions' =
                        IF ~r.res.pump_on THEN -1
                        ELSE IF ~pump_was_running /\ pc = "wait" /\ ~permit /\ ~exit
                             THEN 0
                             ELSE edgeSessions
              ELSE /\ spc' = "read"
                   /\ UNCHANGED <<running, offSeen, edgeSessions>>
    /\ UNCHANGED <<pumpVars, permit, handlerVars, server, rbuf, line, proc>>

\* start_pump.notify_one() for a rising edge.
SerialNotify ==
    /\ Alive /\ spc = "notify"
    /\ permit' = TRUE
    /\ spc' = "read"
    /\ UNCHANGED <<pumpVars, running, handlerVars, server, rbuf, line, res, metrics,
                   proc, offSeen, edgeSessions>>

SerialNext ==
    \/ \E l \in SpecLines : SerialRecv(l)
    \/ SerialRecvErr \/ SerialEof \/ SerialParse \/ SerialNotify

-----------------------------------------------------------------------------
(* The Ctrl-C handler and the prometheus server *)

\* A handler that flips the flag instead of setting it.
CtrlCToggle ==
    /\ Alive /\ hpc = "idle"
    /\ exit' = ~exit
    /\ hpc' = "notify_pump"
    /\ UNCHANGED <<pumpVars, permit, running, signalled, server, serialVars,
                   proc, offSeen, edgeSessions>>

\* An interrupt arrives: the handler runs pump_loop_exit.store(true).
CtrlC ==
    /\ Alive /\ hpc = "idle"
    /\ exit' = TRUE
    /\ hpc' = "notify_pump"
    /\ UNCHANGED <<pumpVars, permit, running, signalled, server, serialVars,
                   proc, offSeen, edgeSessions>>

\* A notification that wakes a task waiting in notified() and is dropped
\* when none is waiting (notify_waiters in place of notify_one).
HandlerNotifyWaiterOnly ==
    /\ Alive /\ hpc = "notify_pump"
    /\ permit' = (permit \/ pc = "wait")
    /\ signalled' = TRUE
    /\ hpc' = "notify_server"
    /\ UNCHANGED <<pumpVars, running, exit, server, serialVars, proc, offSeen,
                   edgeSessions>>

\* start_pump_clone_ctrlc.notify_one()
HandlerNotifyPump ==
    /\ Alive /\ hpc = "notify_pump"
    /\ permit' = TRUE
    /\ signalled' = TRUE
    /\ hpc' = "notify_server"
    /\ UNCHANGED <<pumpVars, running, exit, server, serialVars, proc, offSeen,
                   edgeSessions>>

\* shutdown_prometheus.notify_one()
HandlerNotifyServer ==
    /\ Alive /\ hpc = "notify_server"
    /\ server' = IF server = "running" THEN "notified" ELSE server
    /\ hpc' = "idle"
    /\ UNCHANGED <<pumpVars, permit, running, exit, signalled, serialVars,
                   proc, offSeen, edgeSessions>>

HandlerRun == HandlerNotifyPump \/ HandlerNotifyServer

\* Server::run returns once its shutdown future completes.
ServerStop ==
    /\ Alive /\ server = "notified"
    /\ server' = "stopped"
    /\ UNCHANGED <<pumpVars, permit, running, handlerVars, serialVars, proc,
                   offSeen, edgeSessions>>

-----------------------------------------------------------------------------
(* main *)

\* main waiting for the prometheus server task instead of the countdown task.
MainJoinServer ==
    /\ Alive /\ server = "stopped"
    /\ proc' = "exited_ok"
    /\ UNCHANGED <<pumpVars, permit, running, handlerVars, server, serialVars,
                   offSeen, edgeSessions>>

\* _pump_handle.await.unwrap() returns: main returns and the process exits.
MainJoin ==
    /\ Alive /\ pc = "done"
    /\ proc' = "exited_ok"
    /\ UNCHANGED <<pumpVars, permit, running, handlerVars, server, serialVars,
                   offSeen, edgeSessions>>

\* main dropping the result of the join: it returns normally after a panic.
MainJoinPanicDropped ==
    /\ Alive /\ pc = "panicked"
    /\ proc' = "exited_ok"
    /\ UNCHANGED <<pumpVars, permit, running, handlerVars, server, serialVars,
                   offSeen, edgeSessions>>

\* _pump_handle.await is Err(JoinError) after a panic of the task: unwrap()
\* panics in main and the process exits with a failure.
MainJoinPanic ==
    /\ Alive /\ pc = "panicked"
    /\ proc' = "exited_fail"
    /\ UNCHANGED <<pumpVars, permit, running, handlerVars, server, serialVars,
                   offSeen, edgeSessions>>

-----------------------------------------------------------------------------

Init ==
    /\ pc = "wait" /\ i = 0
    /\ buf = Blank /\ shown = Blank /\ lastOps = <<"init", "flush">>
    /\ permit = FALSE /\ running = FALSE /\ exit = FALSE
    /\ hpc = "idle" /\ signalled = FALSE
    /\ server = "running"
    /\ rbuf = <<>> /\ spc = "read" /\ line = <<>> /\ res = NoResult
    /\ metrics = ZeroMetrics
    /\ proc = "running"
    /\ offSeen = FALSE /\ edgeSessions = -1

Next ==
    \/ PumpWake \/ PumpCheckExit \/ PumpRender \/ PumpAbort
    \/ PumpTickDone \/ PumpComplete \/ PumpFinal
    \/ \E l \in SpecLines : SerialRecv(l)
    \/ SerialRecvErr \/ SerialEof \/ SerialParse \/ SerialNotify
    \/ CtrlC \/ HandlerNotifyPump \/ HandlerNotifyServer \/ ServerStop
    \/ MainJoin

Spec == Init /\ [][Next]_vars

\* The runtime schedules every runnable task, the handler thread runs to its
\* end, and a tick of the interval always arrives.  Lines and interrupts come
\* from outside: nothing says they arrive, and nothing below needs the serial
\* task to get its turn.
FairSpec ==
    /\ Spec
    /\ WF_vars(PumpNext)
    /\ WF_vars(HandlerRun)
    /\ WF_vars(ServerStop)
    /\ WF_vars(MainJoin)

\* The same program with display calls that may fail.
NextFail ==
    \/ Next
    \/ PumpRenderFail \/ PumpCleanupFail \/ PumpFinalFail
    \/ MainJoinPanic

SpecFail == Init /\ [][NextFail]_vars

FairSpecFail ==
    /\ SpecFail
    /\ WF_vars(PumpNext)
    /\ WF_vars(HandlerRun)
    /\ WF_vars(MainJoin)
    /\ WF_vars(MainJoinPanic)

\* The serial task about to parse a line of DecodeLines, after no line or
\* after an earlier pump-on reading.
PriorMetrics == parse_line_and_update_metrics(LineOn, ZeroMetrics).metrics

InitDecode ==
    /\ pc = "wait" /\ i = 0
    /\ buf = Blank /\ shown = Blank /\ lastOps = <<"init", "flush">>
    /\ permit = FALSE /\ exit = FALSE
    /\ hpc = "idle" /\ signalled = FALSE
    /\ server = "running"
    /\ rbuf = <<>> /\ spc = "parse" /\ line \in DecodeLines /\ res = NoResult
    /\ \/ metrics = ZeroMetrics /\ running = FALSE
       \/ metrics = PriorMetrics /\ running = TRUE
    /\ proc = "running"
    /\ offSeen = FALSE /\ edgeSessions = -1

NextDecode == SerialParse \/ SerialNotify

SpecDecode == InitDecode /\ [][NextDecode]_vars

-----------------------------------------------------------------------------
(* Properties *)

Terminated == pc = "done"

\* A flush puts a frame with digits on the device that was not there before.
NewFrame == shown' # Blank /\ shown' # shown

\* C1: the process exits normally only after run_pump has returned, and then
\* the last two calls on the display were clear and flush (nothing is shown).
C1_ExitAfterTerminated ==
    proc = "exited_ok" =>
        (Terminated /\ lastOps = <<"clear", "flush">> /\ shown = Blank)

C1_Witness == proc = "exited_ok" /\ running /\ spc = "read"

\* C2: once the handler has set the exit flag and notified while a session is
\* counting, the session that has a frame on the display renders no further
\* tick frame.
C2_NoTickAfterShutdown ==
    [][(signalled /\ Counting /\ shown # Blank) => ~NewFrame]_vars

\* C3: once pump_running has been stored false during a session that has a
\* frame on the display, that session renders no further tick frame.
C3_NoTickAfterPumpOff == [][(offSeen /\ shown # Blank) => ~NewFrame]_vars

C5_WokenWhileShuttingDown ==
    [][(exit /\ pc \in {"wait", "woken", "final"}) =>
          /\ pc' \in {"wait", "woken", "final", "done"}
          /\ buf' = Blank /\ shown' = Blank
          /\ (pc' = "done" => lastOps' = <<"clear", "flush">>)]_vars

\* The start signal of a rising edge and the interrupt were both pending; the
\* task has returned without having started a session.
C5_Witness == Terminated /\ edgeSessions = 0 /\ shown = Blank /\ running

\* C6: under fair scheduling, and display calls that succeed, an interrupt
\* is followed by the return of run_pump and the normal exit of the process.
C6_InterruptLeadsToExit == exit ~> (Terminated /\ proc = "exited_ok")

C6_Witness == proc = "exited_ok" /\ signalled /\ edgeSessions = 1 /\ permit

\* C7: parsing a line that does not split into 7 tokens returns the
\* field-count error, writes no gauge, leaves pump_running alone and sends
\* no start signal.
C7_FieldCountRejected ==
    [][(spc = "parse" /\ Len(Split(line)) # 7) =>
          /\ res' = Err(ErrFieldCount)
          /\ metrics' = metrics
          /\ running' = running
          /\ permit' = permit
          /\ spc' = "read"]_vars

C7_Witness ==
    /\ spc = "read" /\ res = Err(ErrFieldCount) /\ Len(Split(line)) = 8
    /\ metrics = PriorMetrics /\ running

\* What a well-formed line is and what it says, read off the text.
IsDecimal(tok) ==
    LET ds == IF tok # <<>> /\ Head(tok) \in {"+", "-"} THEN Tail(tok) ELSE tok
    IN  ds # <<>> /\ \A k \in 1..Len(ds) : ds[k] \in {DigitChars[d] : d \in 1..10}

Decimal(tok) ==
    IF Head(tok) = "-" THEN 0 - DigitsValue(Tail(tok), 0)
    ELSE IF Head(tok) = "+" THEN DigitsValue(Tail(tok), 0)
    ELSE DigitsValue(tok, 0)

IsFlagToken(tok) == IsDecimal(tok) /\ Decimal(tok) \in {0, 1}

WellFormed(l) ==
    LET v == Split(l) IN
    /\ Len(v) = 7
    /\ v[1] # <<>> /\ Head(v[1]) \in {"C", "V"}
    /\ \A k \in 2..5 : IsDecimal(v[k])
    /\ IsFlagToken(v[6]) /\ IsFlagToken(v[7])

Reading(l) ==
    LET v == Split(l) IN
    [machine_mode |-> IF Head(v[1]) = "C" THEN 1 ELSE 0,
     steam_temperature |-> Decimal(v[2]),
     target_steam_temperature |-> Decimal(v[3]),
     hx_temperature |-> Decimal(v[4]),
     countdown_boost_mode |-> Decimal(v[5]),
     heating_element_on |-> Decimal(v[6]),
     pump_on |-> Decimal(v[7])]

\* C8: a well-formed line that has been parsed gave Ok, every gauge holds
\* the value of its field, and the returned status is true exactly when the
\* pump flag is 1.
C8_WellFormedDecoded ==
    (res # NoResult /\ WellFormed(line)) =>
        /\ res = Ok(Decimal(Split(line)[7]) = 1)
        /\ metrics = Reading(line)

\* A steam-mode line with a negative temperature and a leading zero.
C8_Witness ==
    /\ res = Ok(TRUE) /\ spc = "notify"
    /\ metrics.machine_mode = 0
    /\ metrics.steam_temperature = -3
    /\ metrics.hx_temperature = 5

\* The errors the rules allow for a line of 7 tokens that is not well-formed,
\* the rules taken in order; a flag token that is no integer may give any error.
AllErrors ==
    {ErrFieldCount, ErrEmptyToken, ErrUnknownMode, ErrNumeric, ErrHeating, ErrPump}

InvalidBoolean == {ErrHeating, ErrPump}

ExpectedErrors(l) ==
    LET v == Split(l) IN
    IF v[1] = <<>> THEN {ErrEmptyToken}
    ELSE IF Head(v[1]) \notin {"C", "V"} THEN {ErrUnknownMode}
    ELSE IF \E k \in 2..5 : ~IsDecimal(v[k]) THEN {ErrNumeric}
    ELSE IF ~IsDecimal(v[6]) THEN AllErrors
    ELSE IF Decimal(v[6]) \notin {0, 1} THEN InvalidBoolean
    ELSE IF ~IsDecimal(v[7]) THEN AllErrors
    ELSE InvalidBoolean

\* C9: a line of 7 tokens that is not well-formed is never accepted, and the
\* error is that of the first rule it breaks.
C9_IllFormedRejected ==
    (res # NoResult /\ Len(Split(line)) = 7 /\ ~WellFormed(line)) =>
        /\ ~res.ok
        /\ res.err \in ExpectedErrors(line)

\* A pump flag of 2 after six good fields.
C9_Witness ==
    /\ res = Err(ErrPump) /\ spc = "read"
    /\ Split(line)[7] = <<"2">>
    /\ metrics.heating_element_on = 1

\* C10: after a read error has ended the serial task, the process ends with
\* a failure.
C10_SerialErrorIsFatal == (spc = "panicked") ~> (proc = "exited_fail")

\* The serial task with bytes of the machine in its read buffer.
InitWire ==
    /\ pc = "wait" /\ i = 0
    /\ buf = Blank /\ shown = Blank /\ lastOps = <<"init", "flush">>
    /\ permit = FALSE /\ running = FALSE /\ exit = FALSE
    /\ hpc = "idle" /\ signalled = FALSE
    /\ server = "running"
    /\ rbuf \in WireStreams(MaxRecords)
    /\ spc = "read" /\ line = <<>> /\ res = NoResult
    /\ metrics = ZeroMetrics
    /\ proc = "running"
    /\ offSeen = FALSE /\ edgeSessions = -1

\* SerialNotify is left out: no state of SpecWire has spc = "notify".
NextWire ==
    \/ SerialFrame \/ SerialRecvErr \/ SerialEof
    \/ SerialParse
    \/ CtrlC \/ HandlerNotifyPump \/ HandlerNotifyServer

SpecWire == InitWire /\ [][NextWire]_vars

\* C11: once a display call of the countdown task has failed, the task makes
\* no further display call and takes no further step, the process never exits
\* normally, and under fair scheduling it exits with a failure.
C11_DisplayFailureIsFatal ==
    /\ [][pc = "panicked" =>
            /\ pc' = "panicked"
            /\ UNCHANGED <<buf, shown, lastOps, i>>
            /\ proc' # "exited_ok"]_vars
    /\ (pc = "panicked") ~> (proc = "exited_fail")

\* The flush of a tick failed with the digits of the tick before on the device.
C11_Witness ==
    /\ proc = "exited_fail" /\ shown # Blank /\ lastOps = <<"draw", "flush">>

\* The handler runs again after an earlier run has notified.
SecondInterrupt == signalled /\ hpc = "notify_pump"

\* C12: a further run of the handler leaves the exit flag set; once the
\* handler has notified no session starts; run_pump, once returned, stays
\* returned with a blank display; and after a second interrupt the task still
\* returns with the display cleared and the process exits normally.
C12_SecondInterruptHarmless ==
    /\ [][SecondInterrupt => (exit /\ exit')]_vars
    /\ [][signalled => ~(pc = "woken" /\ pc' = "loop")]_vars
    /\ [][Terminated => (Terminated' /\ shown' = Blank)]_vars
    /\ SecondInterrupt ~> (Terminated /\ shown = Blank /\ proc = "exited_ok")

\* The second interrupt arrives during a session, before the countdown task
\* has taken the notification of the first.
C12_Witness == SecondInterrupt /\ pc = "tick" /\ permit /\ shown # Blank

\* C13: parsing a line that is rejected writes no gauge.
C13_RejectedLineWritesNothing ==
    [][(spc = "parse" /\ spc' # "parse" /\ ~res'.ok) => metrics' = metrics]_vars

\* The text of a record before its newline.
Payload(l) == SubSeq(l, 1, Len(l) - 1)

IsWellFormedRecord(l) == l # <<>> /\ l[Len(l)] = LF /\ WellFormed(Payload(l))

\* C14: the line framed out of a well-formed record is accepted: the gauges
\* and pump_running take the values of the record, and a pump flag of 1 read
\* while pump_running was false is followed by the start signal.
C14_FramedLineAccepted ==
    (res # NoResult /\ IsWellFormedRecord(line)) =>
        /\ res = Ok(Decimal(Split(Payload(line))[7]) = 1)
        /\ metrics = Reading(Payload(line))
        /\ running = res.pump_on

\* The serial task finishes the loop body for the line it holds.
LineDone == spc = "parse" /\ spc' # "parse"

\* C15: the serial task goes on to notify_one() exactly for an accepted
\* reading with the pump on while pump_running, the pump flag of the last
\* accepted reading, was false; pump_running changes only to the flag of a
\* reading just accepted; a rejected line leaves pump_running alone and
\* sends nothing; and the serial task sets a notification only in that step.
C15_SignalOnRisingEdgeOnly ==
    /\ [][LineDone =>
            (spc' = "notify" <=> (res'.ok /\ res'.pump_on /\ ~running))]_vars
    /\ [][(LineDone /\ res'.ok) => running' = res'.pump_on]_vars
    /\ [][running' # running => (LineDone /\ res'.ok)]_vars
    /\ [][(LineDone /\ ~res'.ok) =>
            (spc' = "read" /\ running' = running /\ permit' = permit)]_vars
    /\ [][(~permit /\ permit') =>
            \/ spc = "notify" /\ spc' = "read"
            \/ hpc = "notify_pump" /\ hpc' # "notify_pump"]_vars
    /\ [][(spc = "notify" /\ spc' # "notify") => permit']_vars

\* A line is rejected while a countdown started by an earlier edge runs and
\* pump_running is still true.
C15_Witness ==
    /\ spc = "read" /\ line = LineBad /\ res # NoResult /\ ~res.ok
    /\ running /\ Counting /\ ~permit /\ ~signalled

\* C16: whenever the countdown task is suspended in notified() the display
\* and its buffer are blank, and every step that takes the task out of the
\* for loop back to notified() is a clear followed by a flush.
C16_IdleDisplayBlank ==
    /\ [](pc = "wait" => (shown = Blank /\ buf = Blank))
    /\ [][(Counting /\ pc' = "wait") =>
            (lastOps' = <<"clear", "flush">> /\ shown' = Blank /\ buf' = Blank)]_vars

\* The task waits again after a session that was ended by a pump-off line.
C16_Witness ==
    /\ pc = "wait" /\ lastOps = <<"clear", "flush">>
    /\ ~running /\ line = LineOff /\ res = Ok(FALSE) /\ ~exit /\ ~permit

\* C17: run_pump returns by a step that clears and flushes the display, and
\* once it has returned the task stays returned and the display, its buffer,
\* the record of the last display calls and the tick counter never change.
C17_TerminatedIsTerminal ==
    /\ [][(~Terminated /\ Terminated') =>
            (pc = "final" /\ lastOps' = <<"clear", "flush">>
             /\ shown' = Blank /\ buf' = Blank)]_vars
    /\ [][Terminated =>
            (Terminated' /\ UNCHANGED <<buf, shown, lastOps, i>>)]_vars
    /\ [](Terminated => (shown = Blank /\ ~Counting))

\* run_pump has returned; the pump is on and a notification is stored that
\* nobody takes.
C17_Witness ==
    /\ Terminated /\ proc = "running" /\ exit
    /\ permit /\ running /\ spc = "read" /\ line = LineOn /\ res = Ok(TRUE)

\* Frame f is tick t in decimal: units on the right, tens on the left
\* unless they are zero.
ShowsTick(f, t) ==
    \E d \in 0..9, u \in 0..9 :
        /\ t = 10 * d + u
        /\ f = (IF d = 0 THEN {} ELSE {[pos |-> "first", digit |-> d]})
                  \cup {[pos |-> "second", digit |-> u]}

\* The countdown task draws and flushes a tick.
Renders == pc = "loop" /\ pc' = "tick"

\* C18: a session starts at tick 0; every frame put on the display is the
\* frame of the current tick, which is at most 98; the tick changes only by
\* going up by one after a frame, or back to 0 when the session ends; and
\* nothing else puts digits on the display.
C18_FramesCountUp ==
    /\ [][(pc = "woken" /\ pc' = "loop") => i' = 0]_vars
    /\ [][Renders => (i \in 0..98 /\ i' = i /\ ShowsTick(shown', i))]_vars
    /\ [][(pc = "loop" /\ pc' # "loop") => (Renders \/ pc' = "wait")]_vars
    /\ [][pc = "tick" => (pc' = "tick" /\ i' = i) \/ (pc' = "loop" /\ i' = i + 1)]_vars
    /\ [][i' # i => (pc = "tick" \/ i' = 0)]_vars
    /\ [][shown' # shown => (Renders \/ shown' = Blank)]_vars
    /\ [](pc = "tick" => ShowsTick(shown, i))
    /\ [](i \in 0..TICKS)

\* The last frame of a full session: 98.
C18_Witness ==
    /\ pc = "tick" /\ i = 98
    /\ shown = {[pos |-> "first", digit |-> 9], [pos |-> "second", digit |-> 8]}

\* C20: the exit flag is false at the start, no step takes it from true to
\* false, and it changes only in the first step of the interrupt handler.
C20_ShuttingDownMonotonic ==
    /\ ~exit
    /\ [][exit => exit']_vars
    /\ [][exit' # exit => (hpc = "idle" /\ hpc' = "notify_pump")]_vars

\* The flag is still set after run_pump has read it and returned, with the
\* serial task in the middle of a line.
C20_Witness == exit /\ Terminated /\ spc = "parse" /\ hpc = "idle"

\* C19: taking a line out of the bytes received never ends the loop of the
\* serial task, and neither does an interrupt.
C19_ContentNeverEndsLoop ==
    [][(spc = "read" /\ (Len(rbuf') < Len(rbuf) \/ exit' # exit))
          => spc' \in {"read", "parse"}]_vars

=============================================================================
